---- MODULE Spec2Model ----
(***************************************************************************)
(* A model of custom-image-qrcode: the dominant-colour finder              *)
(* (src/src/colour_finder.py), the finder-marker locator and remover       *)
(* (src/src/qr_code.py) and the batch driver (src/src/main.py).            *)
(*                                                                         *)
(* Four specifications share the module:                                   *)
(*   Spec        ColorFinder: get_colour and get_dark_light_colours        *)
(*   SpecWeight  the weight callbacks applied to pairs of pixels           *)
(*   SpecQR      QRCode: rendering, marker location, removal and overlay   *)
(*   SpecBatch   generate_qr_codes over a list of requests                 *)
(***************************************************************************)
EXTENDS Integers, Sequences, FiniteSets, TLC

VARIABLES
    entry,      \* the ColorFinder operation the run exercises
    counter,    \* ColorFinder.counter, in insertion order: <<[pixel, count], ...>>
    callback,   \* ColorFinder.callback
    cfPc,       \* position of the caller of the ColorFinder
    passes,     \* the calls of get_most_prominent_rgb_impl made by the last get_colour
    dark,       \* get_dark_light_colours: local dark (<<>> while unassigned)
    light,      \* get_dark_light_colours: local light (<<>> while unassigned)
    returned,   \* the value returned to the caller (<<>> while none)
    weighed,    \* SpecWeight: the callback applied
    pixelA,     \* SpecWeight: a pixel
    pixelB,     \* SpecWeight: another pixel
    weightA,    \* SpecWeight: the callback's result for pixelA (<<>> before the call)
    weightB,    \* SpecWeight: the callback's result for pixelB (<<>> before the call)
    qrVersion,  \* QRCode._qr_code: the version of the symbol segno made for the data
    qrWidth,    \* QRCode._width
    qrDark,     \* dark_colour of create_qr_code_image
    qrLight,    \* light_colour of create_qr_code_image
    qrSvg,      \* custom_finder_marker_svg: "none" or the kind of file at the path
    qrImage,    \* QRCode._qr_code_image: <<>> for None, else <<[width, height, px]>>
    qrPc,       \* position of the caller of the QRCode
    qrLists,    \* get_finding_marker_positions: the three sorted lists of its last call
    qrMarkers,  \* the marker positions returned by the last call (<<>> while none)
    qrError,    \* the exception raised to the caller ("" while none)
    bCustomMarker,  \* conf["custom_marker"]
    bStatus,    \* per request of request_list: its future ("pending", "cancelled",
                \* "saved", or the failure generate_qr_code raised)
    bNext,      \* the request whose result the loop over executor.map awaits
    bSavePaths, \* save_paths
    bPc         \* generate_qr_codes: "mapping", "printed" or "raised"

cfVars == <<entry, counter, callback, cfPc, passes, dark, light, returned>>

wVars == <<weighed, pixelA, pixelB, weightA, weightB>>

qrVars ==
    <<qrVersion, qrWidth, qrDark, qrLight, qrSvg, qrImage, qrPc, qrLists,
      qrMarkers, qrError>>

bVars == <<bCustomMarker, bStatus, bNext, bSavePaths, bPc>>

vars == <<cfVars, wVars, qrVars, bVars>>

\* What an action of one part leaves alone: the other parts.
CfFrame == UNCHANGED <<wVars, qrVars, bVars>>

WFrame == UNCHANGED <<cfVars, qrVars, bVars>>

QrFrame == UNCHANGED <<cfVars, wVars, bVars>>

BFrame == UNCHANGED <<cfVars, wVars, qrVars>>

(***************************************************************************)
(* Bounds of the model.                                                    *)
(***************************************************************************)
MaxColours == 3

MaxVersion == 2

MaxScale == 2

MaxRequests == 3

\* The colours an image may hold: two near-black greys in one level-4 bucket, a
\* dark red in the same level-6 bucket, two saturated primaries, a near-white.
Palette ==
    { <<0, 0, 0>>, <<10, 10, 10>>, <<60, 10, 10>>,
      <<255, 0, 0>>, <<0, 255, 0>>, <<250, 250, 250>> }

\* Occurrence counts of a colour in an image.
Counts == {1, 100}

(***************************************************************************)
(* Arithmetic helpers.                                                     *)
(***************************************************************************)
RECURSIVE Pow2(_)
Pow2(n) == IF n = 0 THEN 1 ELSE 2 * Pow2(n - 1)

\* c >> d on a non-negative integer
ShiftRight(c, d) == c \div Pow2(d)

Abs(x) == IF x < 0 THEN -x ELSE x

Max2(a, b) == IF a >= b THEN a ELSE b

Min2(a, b) == IF a <= b THEN a ELSE b

\* int(q) of the real number q = n / d (d > 0): truncation toward zero
IntOf(q) == IF q[1] >= 0 THEN q[1] \div q[2] ELSE -((-q[1]) \div q[2])

(***************************************************************************)
(* The weight callbacks.  Each returns the real number the Python function *)
(* returns, as a fraction <<numerator, denominator>>.  For every 8-bit     *)
(* pixel the double-precision result truncates to the same integer as the  *)
(* exact fraction.                                                         *)
(***************************************************************************)
\* Variant of favour_dark: the offset one multiple of 3 lower, so that white scores 1.
favour_dark_white_is_one(pixel) == <<765 - pixel[1] - pixel[2] - pixel[3] + 1, 1>>

favour_dark(pixel) == <<768 - pixel[1] - pixel[2] - pixel[3] + 1, 1>>

favour_hue(pixel) ==
    LET r == pixel[1]
        g == pixel[2]
        b == pixel[3]
        s == Abs(r - g) * Abs(r - g) + Abs(r - b) * Abs(r - b)
                + Abs(g - b) * Abs(g - b)
    IN  <<s * 50 + 65535, 65535>>

favour_bright_exclude_white(pixel) ==
    LET r == pixel[1]
        g == pixel[2]
        b == pixel[3]
    IN  IF r > 245 /\ g > 245 /\ b > 245
        THEN <<0, 1>>
        ELSE <<(r * r + g * g + b * b) * 20 + 65535, 65535>>

favour_saturation(pixel) ==
    LET mx == Max2(pixel[1], Max2(pixel[2], pixel[3]))
        mn == Min2(pixel[1], Min2(pixel[2], pixel[3]))
    IN  \* luminosity = (mx - mn) / 255; it is never exactly 0.5
        IF mx - mn = 0 THEN <<0, 1>>
        ELSE IF 2 * (mx - mn) < 255 THEN <<mx - mn, mx + mn>>
        ELSE <<mx - mn, 510 - mx - mn>>

\* A caller-supplied color_factor_callback that goes negative: r - g.
red_minus_green(pixel) == <<pixel[1] - pixel[2], 1>>

Callbacks ==
    { "favour_hue", "favour_dark", "favour_bright_exclude_white",
      "favour_saturation", "red_minus_green" }

\* self.callback(pixel)
CallCallback(cb, pixel) ==
    CASE cb = "favour_hue" -> favour_hue(pixel)
      [] cb = "favour_dark" -> favour_dark(pixel)
      [] cb = "favour_bright_exclude_white" -> favour_bright_exclude_white(pixel)
      [] cb = "favour_saturation" -> favour_saturation(pixel)
      [] cb = "red_minus_green" -> red_minus_green(pixel)

(***************************************************************************)
(* ColorFinder.                                                            *)
(***************************************************************************)
\* max(int(self.callback(pixel)), 0)
ClampedWeight(cb, pixel) == Max2(IntOf(CallCallback(cb, pixel)), 0)

\* The dict {pixel: {"weight", "count"}} in the counter's order.
get_image_data(cnt, cb) ==
    [i \in 1..Len(cnt) |->
        [pixel |-> cnt[i].pixel,
         weight |-> ClampedWeight(cb, cnt[i].pixel),
         count |-> cnt[i].count]]

DegradePixel(pixel, degrade) ==
    <<ShiftRight(pixel[1], degrade), ShiftRight(pixel[2], degrade),
      ShiftRight(pixel[3], degrade)>>

\* Variant of does_rgb_match: shifts by the level of the running pass.
does_rgb_match_current_level(reference, pixel) ==
    IF reference = <<>> THEN TRUE
    ELSE LET p == DegradePixel(pixel, reference[1].d - 2)
         IN  reference[1].r = p[1] /\ reference[1].g = p[2] /\ reference[1].b = p[3]

\* reference is <<>> for None, else <<rgb>>.
does_rgb_match(reference, pixel) ==
    IF reference = <<>> THEN TRUE
    ELSE LET p == DegradePixel(pixel, reference[1].d)
         IN  reference[1].r = p[1] /\ reference[1].g = p[2] /\ reference[1].b = p[3]

\* db[key] = db.get(key, 0) + total: db is the dict in insertion order,
\* <<[key, total], ...>>.
DbAdd(db, key, total) ==
    IF \E i \in 1..Len(db) : db[i].key = key
    THEN [i \in 1..Len(db) |->
            IF db[i].key = key
            THEN [key |-> key, total |-> db[i].total + total]
            ELSE db[i]]
    ELSE Append(db, [key |-> key, total |-> total])

\* The loop over pixels.items() of get_most_prominent_rgb_impl.
RECURSIVE BuildDb(_, _, _, _, _)
BuildDb(pixels, degrade, rgb_match, i, db) ==
    IF i > Len(pixels) THEN db
    ELSE LET value == pixels[i]
             total_weight == value.weight * value.count
         IN  IF does_rgb_match(rgb_match, value.pixel)
             THEN BuildDb(pixels, degrade, rgb_match, i + 1,
                          DbAdd(db, DegradePixel(value.pixel, degrade), total_weight))
             ELSE BuildDb(pixels, degrade, rgb_match, i + 1, db)

\* Variant of MaxItem: the last item of maximal value.
MaxItemLast(db) ==
    db[CHOOSE i \in 1..Len(db) :
          /\ \A j \in 1..Len(db) : db[j].total <= db[i].total
          /\ \A j \in (i + 1)..Len(db) : db[j].total < db[i].total]

\* max(db.items(), key=lambda x: x[1]): the first item of maximal value
MaxItem(db) ==
    db[CHOOSE i \in 1..Len(db) :
          /\ \A j \in 1..Len(db) : db[j].total <= db[i].total
          /\ \A j \in 1..(i - 1) : db[j].total < db[i].total]

DefaultRgb(degrade) == [r |-> 0, g |-> 0, b |-> 0, weight |-> 0, d |-> degrade]

\* Variant of get_most_prominent_rgb_impl: an empty db yields the initial rgb.
get_most_prominent_rgb_impl_default_on_empty(pixels, degrade, rgb_match) ==
    LET db == BuildDb(pixels, degrade, rgb_match, 1, <<>>)
    IN  IF db = <<>>
        THEN [raised |-> FALSE, db |-> db, rgb |-> DefaultRgb(degrade)]
        ELSE LET max_weight == MaxItem(db)
             IN  [raised |-> FALSE, db |-> db,
                  rgb |-> [r |-> max_weight.key[1], g |-> max_weight.key[2],
                           b |-> max_weight.key[3], weight |-> max_weight.total,
                           d |-> degrade]]

\* raised: max() of an empty db raises ValueError
get_most_prominent_rgb_impl(pixels, degrade, rgb_match) ==
    LET db == BuildDb(pixels, degrade, rgb_match, 1, <<>>)
    IN  IF db = <<>>
        THEN [raised |-> TRUE, db |-> db, rgb |-> DefaultRgb(degrade)]
        ELSE LET max_weight == MaxItem(db)
             IN  [raised |-> FALSE, db |-> db,
                  rgb |-> [r |-> max_weight.key[1], g |-> max_weight.key[2],
                           b |-> max_weight.key[3], weight |-> max_weight.total,
                           d |-> degrade]]

\* Variant of DegradeLevels: level 4 left out.
DegradeLevelsSkipFour == <<6, 2, 0>>

\* The degrade levels of the four calls made by get_colour, in order.
DegradeLevels == <<6, 4, 2, 0>>

HexDigits ==
    <<"0", "1", "2", "3", "4", "5", "6", "7", "8", "9", "a", "b", "c", "d", "e", "f">>

\* f"{c:02x}"
Hex02(c) == <<HexDigits[(c \div 16) + 1], HexDigits[(c % 16) + 1]>>

\* f"#{rgb['r']:02x}{rgb['g']:02x}{rgb['b']:02x}", a string as its characters
FormatHex(rgb) == <<"#">> \o Hex02(rgb.r) \o Hex02(rgb.g) \o Hex02(rgb.b)

\* The calls of get_most_prominent_rgb_impl, each with the previous result.
RECURSIVE RunPasses(_, _, _, _)
RunPasses(data, levels, rgb_match, log) ==
    IF levels = <<>>
    THEN [raised |-> FALSE, passes |-> log, value |-> FormatHex(rgb_match[1])]
    ELSE LET res == get_most_prominent_rgb_impl(data, Head(levels), rgb_match)
             call == [degrade |-> Head(levels), rgb_match |-> rgb_match,
                      db |-> res.db, raised |-> res.raised, rgb |-> res.rgb]
         IN  IF res.raised
             THEN [raised |-> TRUE, passes |-> Append(log, call), value |-> <<>>]
             ELSE RunPasses(data, Tail(levels), <<res.rgb>>, Append(log, call))

get_colour(cnt, cb) == RunPasses(get_image_data(cnt, cb), DegradeLevels, <<>>, <<>>)

(***************************************************************************)
(* get_dark_light_colours.                                                 *)
(***************************************************************************)
UpperHexDigits ==
    <<"0", "1", "2", "3", "4", "5", "6", "7", "8", "9", "A", "B", "C", "D", "E", "F">>

\* int(ch, 16): hexadecimal digits of either case
HexValue(ch) ==
    CHOOSE v \in 0..15 : HexDigits[v + 1] = ch \/ UpperHexDigits[v + 1] = ch

\* ImageColor.getrgb("#rrggbb")
getrgb(colour) ==
    <<16 * HexValue(colour[2]) + HexValue(colour[3]),
      16 * HexValue(colour[4]) + HexValue(colour[5]),
      16 * HexValue(colour[6]) + HexValue(colour[7])>>

Black == <<"#", "0", "0", "0", "0", "0", "0">>

White == <<"#", "F", "F", "F", "F", "F", "F">>

SquaredDistance(c1, c2) ==
    (c1[1] - c2[1]) * (c1[1] - c2[1]) + (c1[2] - c2[2]) * (c1[2] - c2[2])
        + (c1[3] - c2[3]) * (c1[3] - c2[3])

\* distance < 0.3, with distance = squared / 195075: squared <= 58522
TooClose(c1, c2) == SquaredDistance(c1, c2) * 10 < 195075 * 3

\* Variant of NearBlack: the comparisons reversed.
NearBlackFlipped(c) == c[1] > 50 /\ c[2] > 50 /\ c[3] > 50

\* lr < 50 and lg < 50 and lb < 50
NearBlack(c) == c[1] < 50 /\ c[2] < 50 /\ c[3] < 50

\* Variant of CorrectPair: the second test as an elif of the first.
CorrectPairElif(d, l) ==
    LET too_close == TooClose(getrgb(d), getrgb(l))
    IN  <<IF too_close THEN Black ELSE d,
          IF ~too_close /\ getrgb(l)[1] < 50 /\ getrgb(l)[2] < 50 /\ getrgb(l)[3] < 50
          THEN White ELSE l>>

\* The two corrections of get_dark_light_colours on the extracted pair.
CorrectPair(d, l) ==
    <<IF TooClose(getrgb(d), getrgb(l)) THEN Black ELSE d,
      IF NearBlack(getrgb(l)) THEN White ELSE l>>

(***************************************************************************)
(* The images: every counter of at most MaxColours distinct colours.       *)
(***************************************************************************)
Counters ==
    UNION { { c \in [1..n -> [pixel : Palette, count : Counts]] :
                \A i, j \in 1..n : i # j => c[i].pixel # c[j].pixel }
            : n \in 0..MaxColours }

CfInit ==
    /\ counter \in Counters
    /\ entry \in {"get_colour", "get_dark_light_colours"}
    /\ callback \in IF entry = "get_colour" THEN Callbacks ELSE {"favour_dark"}
    /\ cfPc = "constructed"
    /\ passes = <<>>
    /\ dark = <<>>
    /\ light = <<>>
    /\ returned = <<>>

\* finder.get_colour(), called by a client or by get_dark_light_colours
GetColour ==
    /\ cfPc \in {"constructed", "callback_set"}
    /\ LET run == get_colour(counter, callback)
       IN  /\ passes' = run.passes
           /\ IF run.raised
              THEN /\ cfPc' = "raised"
                   /\ UNCHANGED <<dark, light, returned>>
              ELSE IF entry = "get_colour"
              THEN /\ cfPc' = "returned"
                   /\ returned' = <<run.value>>
                   /\ UNCHANGED <<dark, light>>
              ELSE IF cfPc = "constructed"
              THEN /\ cfPc' = "dark_found"
                   /\ dark' = run.value
                   /\ UNCHANGED <<light, returned>>
              ELSE /\ cfPc' = "light_found"
                   /\ light' = run.value
                   /\ UNCHANGED <<dark, returned>>
    /\ UNCHANGED <<entry, counter, callback>>
    /\ CfFrame

\* A client calls finder.get_colour() once more on the same ColorFinder: the
\* counter and the callback are as they were, and the new value is kept after
\* the first one.
GetColourAgain ==
    /\ entry = "get_colour"
    /\ cfPc = "returned"
    /\ LET run == get_colour(counter, callback)
       IN  /\ passes' = run.passes
           /\ IF run.raised
              THEN /\ cfPc' = "raised"
                   /\ UNCHANGED returned
              ELSE /\ cfPc' = "returned_again"
                   /\ returned' = Append(returned, run.value)
    /\ UNCHANGED <<entry, counter, callback, dark, light>>
    /\ CfFrame

\* finder.set_callback(ColorFinder.favour_hue)
SetCallback ==
    /\ cfPc = "dark_found"
    /\ callback' = "favour_hue"
    /\ cfPc' = "callback_set"
    /\ UNCHANGED <<entry, counter, passes, dark, light, returned>>
    /\ CfFrame

\* The rest of get_dark_light_colours: the corrections and the return.
ReturnDarkLight ==
    /\ cfPc = "light_found"
    /\ returned' = <<CorrectPair(dark, light)>>
    /\ cfPc' = "returned"
    /\ UNCHANGED <<entry, counter, callback, passes, dark, light>>
    /\ CfFrame

CfNext == GetColour \/ GetColourAgain \/ SetCallback \/ ReturnDarkLight

(***************************************************************************)
(* The weight callbacks on their own: a callback applied to two pixels.    *)
(***************************************************************************)
Channels == {0, 1, 128, 255}

Pixels == Channels \X Channels \X Channels

WInit ==
    /\ weighed \in Callbacks
    /\ pixelA \in Pixels
    /\ pixelB \in Pixels
    /\ weightA = <<>>
    /\ weightB = <<>>

WIdle ==
    /\ weighed = "favour_hue"
    /\ pixelA = <<0, 0, 0>>
    /\ pixelB = <<0, 0, 0>>
    /\ weightA = <<>>
    /\ weightB = <<>>

\* callback(pixelA), callback(pixelB)
Weigh ==
    /\ weightA = <<>>
    /\ weightA' = CallCallback(weighed, pixelA)
    /\ weightB' = CallCallback(weighed, pixelB)
    /\ UNCHANGED <<weighed, pixelA, pixelB>>
    /\ WFrame

WNext == Weigh

(***************************************************************************)
(* QRCode.  segno supplies the module matrix: a symbol of version v has    *)
(* 17 + 4v modules a side and a quiet zone of 4 modules; its three finder  *)
(* patterns are 7 x 7 squares at the top-left, top-right and bottom-left   *)
(* corners, dark on the outer ring and the inner 3 x 3.                    *)
(***************************************************************************)
Border == 4

FinderSize == 7

MatrixSize(version) == 17 + 4 * version

\* self._qr_code.symbol_size(scale)[0]
SymbolSize(version, scale) == (MatrixSize(version) + 2 * Border) * scale

\* math.ceil(self.width / self._qr_code.symbol_size(scale=1)[0])
ScaleOf(version, width) ==
    (width + SymbolSize(version, 1) - 1) \div SymbolSize(version, 1)

\* The module corners (col, row) of the finder patterns: top-left, top-right,
\* bottom-left.
FinderOrigins(version) ==
    <<<<0, 0>>, <<MatrixSize(version) - FinderSize, 0>>,
      <<0, MatrixSize(version) - FinderSize>>>>

\* The type segno's verbose iterator gives the module at (col, row).
ModuleType(version, col, row) ==
    LET size == MatrixSize(version)
        inside == col >= 0 /\ col < size /\ row >= 0 /\ row < size
        origins == FinderOrigins(version)
        InFinder(k) ==
            /\ col >= origins[k][1] /\ col < origins[k][1] + FinderSize
            /\ row >= origins[k][2] /\ row < origins[k][2] + FinderSize
    IN  IF ~inside THEN "TYPE_QUIET_ZONE"
        ELSE IF \E k \in 1..3 : InFinder(k)
        THEN LET k == CHOOSE n \in 1..3 : InFinder(n)
                 ring == Max2(Abs(col - origins[k][1] - 3), Abs(row - origins[k][2] - 3))
             IN  IF ring = 3 \/ ring <= 1
                 THEN "TYPE_FINDER_PATTERN_DARK"
                 ELSE "TYPE_FINDER_PATTERN_LIGHT"
        ELSE "other"

\* matrix_iter(scale=scale, verbose=True): row y, column x of the scaled matrix,
\* quiet zone included.
MatrixIter(version, scale, x, y) ==
    ModuleType(version, (x \div scale) - Border, (y \div scale) - Border)

Points(w, h) == (0..(w - 1)) \X (0..(h - 1))

\* The image segno renders: a finder module in finder_dark or finder_light; the
\* colour of any other pixel is left open ("other").
RenderImage(version, scale, dark_colour, light_colour) ==
    LET w == SymbolSize(version, scale)
    IN  [width |-> w, height |-> w,
         px |-> [p \in Points(w, w) |->
                    LET t == MatrixIter(version, scale, p[1], p[2])
                    IN  IF t = "TYPE_FINDER_PATTERN_DARK" THEN dark_colour
                        ELSE IF t = "TYPE_FINDER_PATTERN_LIGHT" THEN light_colour
                        ELSE "other"]]

\* Variant of coordinate_sum: x - y.
coordinate_sum_difference(p) == p[1] - p[2]

coordinate_sum(p) == p[1] + p[2]

RECURSIVE SortedFrom(_, _, _)
SortedFrom(list, key, last) ==
    IF key > last THEN <<>>
    ELSE SelectSeq(list, LAMBDA p : coordinate_sum(p) = key)
            \o SortedFrom(list, key + 1, last)

\* list.sort(key=coordinate_sum): ascending and stable
SortByCoordinateSum(list) ==
    IF list = <<>> THEN <<>>
    ELSE LET keys == { coordinate_sum(list[i]) : i \in 1..Len(list) }
             lo == CHOOSE k \in keys : \A m \in keys : k <= m
             hi == CHOOSE k \in keys : \A m \in keys : k >= m
         IN  SortedFrom(list, lo, hi)

\* Variant of Classify: the left half is not split by rows.
ClassifyIgnoringRows(x, y, middle_x, middle_y) ==
    IF x > middle_x THEN "top_right"
    ELSE IF x < middle_x THEN "top_left"
    ELSE "none"

\* Variant of Classify: the last elif left out.
ClassifyWithoutBottomLeft(x, y, middle_x, middle_y) ==
    IF x > middle_x THEN "top_right"
    ELSE IF x < middle_x /\ y < middle_y THEN "top_left"
    ELSE "none"

\* The if / elif / elif of the scan.
Classify(x, y, middle_x, middle_y) ==
    IF x > middle_x THEN "top_right"
    ELSE IF x < middle_x /\ y < middle_y THEN "top_left"
    ELSE IF x < middle_x /\ y > middle_y THEN "bottom_left"
    ELSE "none"

\* QRCode.get_finding_marker_positions on an image that is not None.  raised:
\* indexing an empty list raises IndexError.
get_finding_marker_positions(image, version, width) ==
    LET scale == ScaleOf(version, width)
        columns == SymbolSize(version, scale)
        middle_x == image.width \div 2
        middle_y == image.height \div 2
        \* the dark finder points in the order the two loops meet them
        scan == SelectSeq(
                    [i \in 1..(columns * columns) |->
                        <<(i - 1) % columns, (i - 1) \div columns>>],
                    LAMBDA p : MatrixIter(version, scale, p[1], p[2])
                                  = "TYPE_FINDER_PATTERN_DARK")
        Marker(name) ==
            SortByCoordinateSum(
                SelectSeq(scan, LAMBDA p : Classify(p[1], p[2], middle_x, middle_y) = name))
        top_left_marker == Marker("top_left")
        top_right_marker == Marker("top_right")
        bottom_left_marker == Marker("bottom_left")
        lists == <<top_left_marker, top_right_marker, bottom_left_marker>>
    IN  IF \E k \in 1..3 : lists[k] = <<>>
        THEN [raised |-> TRUE, scan |-> scan, lists |-> lists, markers |-> <<>>]
        ELSE [raised |-> FALSE, scan |-> scan, lists |-> lists,
              markers |-> [k \in 1..3 |-> <<lists[k][1], lists[k][Len(lists[k])]>>]]

InRectangle(p, point1, point2) ==
    /\ p[1] >= point1[1] /\ p[1] <= point2[1]
    /\ p[2] >= point1[2] /\ p[2] <= point2[2]

\* For each marker: a rectangle of width x2 - x1 + 1 and height y2 - y1 + 1 in
\* `colour`, pasted at point1.
Paste(image, markers, colour) ==
    [image EXCEPT !.px =
        [p \in DOMAIN image.px |->
            IF \E k \in 1..Len(markers) : InRectangle(p, markers[k][1], markers[k][2])
            THEN colour
            ELSE image.px[p]]]

\* The fill of the rectangles _remove_finding_markers pastes.
RemovalFill == "white"

\* The (dark_colour, light_colour) pairs tried: the defaults, and a pair as
\* get_dark_light_colours finds it in an image.
ColourPairs == { <<"black", "white">>, <<"#3c0a0a", "#fafafa">> }

\* What is at svg_path: no file, a file that is not .svg, an .svg that does not
\* parse, an .svg with opaque artwork.
SvgKinds == {"missing", "not_svg", "broken", "opaque"}

\* The configured widths tried for a version: for every scale up to MaxScale the
\* smallest and the largest width that gives it.
Widths(version) ==
    UNION { { (k - 1) * SymbolSize(version, 1) + 1, k * SymbolSize(version, 1) }
            : k \in 1..MaxScale }

QrInit ==
    /\ qrVersion \in 1..MaxVersion
    /\ qrWidth \in Widths(qrVersion)
    /\ qrDark = "black"
    /\ qrLight = "white"
    /\ qrSvg = "none"
    /\ qrImage = <<>>
    /\ qrPc = "new"
    /\ qrLists = <<>>
    /\ qrMarkers = <<>>
    /\ qrError = ""

QrIdle ==
    /\ qrVersion = 1
    /\ qrWidth = 1
    /\ qrDark = "black"
    /\ qrLight = "white"
    /\ qrSvg = "none"
    /\ qrImage = <<>>
    /\ qrPc = "idle"
    /\ qrLists = <<>>
    /\ qrMarkers = <<>>
    /\ qrError = ""

\* create_qr_code_image up to the conversion to RGB, with image_path None or
\* an existing file; with a custom marker the call goes on in
\* change_finder_markers.
CreateQrCodeImage ==
    /\ qrPc = "new"
    /\ \E colours \in ColourPairs :
          LET image == RenderImage(qrVersion, ScaleOf(qrVersion, qrWidth),
                                   colours[1], colours[2])
          IN  \E svg \in SvgKinds \cup {"none"} :
                 /\ qrImage' = <<image>>
                 /\ qrDark' = colours[1]
                 /\ qrLight' = colours[2]
                 /\ qrSvg' = svg
                 /\ qrPc' = IF svg = "none" THEN "created" ELSE "changing"
    /\ UNCHANGED <<qrVersion, qrWidth, qrLists, qrMarkers, qrError>>
    /\ QrFrame

\* create_qr_code_image with an image_path that does not exist
CreateQrCodeImageMissingFile ==
    /\ qrPc = "new"
    /\ qrPc' = "raised"
    /\ qrError' = "FileNotFoundError"
    /\ UNCHANGED <<qrVersion, qrWidth, qrDark, qrLight, qrSvg, qrImage, qrLists,
                   qrMarkers>>
    /\ QrFrame

\* QRCode.get_finding_marker_positions(code), called by a client
GetFindingMarkerPositions ==
    /\ qrPc \in {"new", "created"}
    /\ IF qrImage = <<>>
       THEN /\ qrPc' = "raised"
            /\ qrError' = "ValueError"
            /\ UNCHANGED <<qrLists, qrMarkers>>
       ELSE LET found == get_finding_marker_positions(qrImage[1], qrVersion, qrWidth)
            IN  /\ qrLists' = found.lists
                /\ qrMarkers' = found.markers
                /\ qrPc' = IF found.raised THEN "raised" ELSE "located"
                /\ qrError' = IF found.raised THEN "IndexError" ELSE ""
    /\ UNCHANGED <<qrVersion, qrWidth, qrDark, qrLight, qrSvg, qrImage>>
    /\ QrFrame

\* change_finder_markers: its checks, then _remove_finding_markers
RemoveFindingMarkers ==
    /\ qrPc = "changing"
    /\ IF qrSvg = "missing"
       THEN /\ qrPc' = "raised"
            /\ qrError' = "FileNotFoundError"
            /\ UNCHANGED <<qrImage, qrLists, qrMarkers>>
       ELSE IF qrSvg = "not_svg"
       THEN /\ qrPc' = "raised"
            /\ qrError' = "ValueError"
            /\ UNCHANGED <<qrImage, qrLists, qrMarkers>>
       ELSE LET found == get_finding_marker_positions(qrImage[1], qrVersion, qrWidth)
            IN  /\ qrLists' = found.lists
                /\ qrMarkers' = found.markers
                /\ IF found.raised
                   THEN /\ qrPc' = "raised"
                        /\ qrError' = "IndexError"
                        /\ UNCHANGED qrImage
                   ELSE /\ qrPc' = "stripped"
                        /\ qrImage' = <<Paste(qrImage[1], found.markers, RemovalFill)>>
                        /\ UNCHANGED qrError
    /\ UNCHANGED <<qrVersion, qrWidth, qrDark, qrLight, qrSvg>>
    /\ QrFrame

\* change_finder_markers after the removal: the SVG is parsed, recoloured and
\* overlaid on each marker position with its own alpha as the mask.
OverlayMarkers ==
    /\ qrPc = "stripped"
    /\ IF qrSvg = "broken"
       THEN /\ qrPc' = "raised"
            /\ qrError' = "ExpatError"
            /\ UNCHANGED qrImage
       ELSE /\ qrPc' = "overlaid"
            /\ qrImage' = <<Paste(qrImage[1], qrMarkers, "artwork")>>
            /\ UNCHANGED qrError
    /\ UNCHANGED <<qrVersion, qrWidth, qrDark, qrLight, qrSvg, qrLists, qrMarkers>>
    /\ QrFrame

QrNext ==
    \/ CreateQrCodeImage
    \/ CreateQrCodeImageMissingFile
    \/ GetFindingMarkerPositions
    \/ RemoveFindingMarkers
    \/ OverlayMarkers

(***************************************************************************)
(* generate_qr_codes: the requests run in a process pool, and the loop over *)
(* executor.map takes their results in the order of request_list.          *)
(***************************************************************************)
\* The failures of change_finder_markers: no file at the marker path
\* (FileNotFoundError), not an .svg (ValueError), an .svg that does not parse.
CompositorFailures == {"svg_missing", "not_svg", "svg_broken"}

\* How generate_qr_code ends for one request: it returns save_path ("saved"),
\* or create_qr_code_image raises for a missing image or in
\* change_finder_markers (reached only with conf["custom_marker"]).
GenerateQrCodeOutcomes(custom_marker) ==
    {"saved", "image_missing"}
        \cup (IF custom_marker THEN CompositorFailures ELSE {})

BInit ==
    /\ bCustomMarker \in BOOLEAN
    /\ \E n \in 0..MaxRequests : bStatus = [i \in 1..n |-> "pending"]
    /\ bNext = 1
    /\ bSavePaths = <<>>
    /\ bPc = "mapping"

BIdle ==
    /\ bCustomMarker = FALSE
    /\ bStatus = <<>>
    /\ bNext = 1
    /\ bSavePaths = <<>>
    /\ bPc = "idle"

\* A pool process runs helper on a request.
HelperRuns ==
    /\ bPc \in {"mapping", "raised"}
    /\ \E i \in DOMAIN bStatus :
          /\ bStatus[i] = "pending"
          /\ \E outcome \in GenerateQrCodeOutcomes(bCustomMarker) :
                bStatus' = [bStatus EXCEPT ![i] = outcome]
    /\ UNCHANGED <<bCustomMarker, bNext, bSavePaths, bPc>>
    /\ BFrame

\* One turn of the loop: the next result is a save path, which is appended.
CollectSavePath ==
    /\ bPc = "mapping"
    /\ bNext \in DOMAIN bStatus
    /\ bStatus[bNext] = "saved"
    /\ bSavePaths' = Append(bSavePaths, bNext)
    /\ bNext' = bNext + 1
    /\ UNCHANGED <<bCustomMarker, bStatus, bPc>>
    /\ BFrame

MapRaises ==
    /\ bPc = "mapping"
    /\ bNext \in DOMAIN bStatus
    /\ bStatus[bNext] \notin {"pending", "saved"}
    /\ bPc' = "raised"
    /\ \E cancelled \in SUBSET { i \in DOMAIN bStatus : bStatus[i] = "pending" } :
          bStatus' = [i \in DOMAIN bStatus |->
                        IF i \in cancelled THEN "cancelled" ELSE bStatus[i]]
    /\ UNCHANGED <<bCustomMarker, bNext, bSavePaths>>
    /\ BFrame

\* The loop: the next result is a save path, or the exception of that request,
\* which the loop does not catch; it leaves generate_qr_codes, and the futures
\* not yet handed to a process are cancelled.
MapYields == CollectSavePath \/ MapRaises

\* The results are exhausted: the save paths are printed.
PrintSavePaths ==
    /\ bPc = "mapping"
    /\ bNext = Len(bStatus) + 1
    /\ bPc' = "printed"
    /\ UNCHANGED <<bCustomMarker, bStatus, bNext, bSavePaths>>
    /\ BFrame

BNext == HelperRuns \/ MapYields \/ PrintSavePaths

(***************************************************************************)
(* The specifications.                                                     *)
(***************************************************************************)
CfIdle ==
    /\ counter = <<>> /\ entry = "get_colour" /\ callback = "favour_hue"
    /\ cfPc = "idle" /\ passes = <<>> /\ dark = <<>> /\ light = <<>>
    /\ returned = <<>>

Init == CfInit /\ WIdle /\ QrIdle /\ BIdle

Spec == Init /\ [][CfNext]_vars

InitWeight == CfIdle /\ WInit /\ QrIdle /\ BIdle

SpecWeight == InitWeight /\ [][WNext]_vars

InitQR == CfIdle /\ WIdle /\ QrInit /\ BIdle

SpecQR == InitQR /\ [][QrNext]_vars

InitBatch == CfIdle /\ WIdle /\ QrIdle /\ BInit

SpecBatch == InitBatch /\ [][BNext]_vars

(***************************************************************************)
(* Properties of ColorFinder (specification Spec).                         *)
(***************************************************************************)
Entries == {counter[i] : i \in 1..Len(counter)}

\* The states right after a get_colour that returned, with the callback it used.
ColourFound ==
    \/ entry = "get_colour" /\ cfPc = "returned"
    \/ cfPc \in {"dark_found", "light_found"}

LastColour ==
    IF entry = "get_colour" THEN returned[1]
    ELSE IF cfPc = "dark_found" THEN dark ELSE light

\* C1: whenever get_colour returns, the colour is a key of the histogram whose
\* clamped weight max(int(callback(colour)), 0) is strictly positive, whatever
\* the callback, all-zero weights included.
C1_ReturnedColourHasPositiveWeight ==
    ColourFound =>
        \E e \in Entries :
            /\ e.pixel = getrgb(LastColour)
            /\ Max2(IntOf(CallCallback(callback, e.pixel)), 0) > 0

\* C2: get_colour on an empty histogram raises in its first pass, at degrade
\* level 6, and returns no colour (no default #000000 either).
C2_EmptyHistogramRaises ==
    (counter = <<>> /\ cfPc # "constructed") =>
        /\ cfPc = "raised"
        /\ Len(passes) = 1
        /\ passes[1].degrade = 6
        /\ passes[1].raised
        /\ returned = <<>>
        /\ dark = <<>>
        /\ light = <<>>

C2_Witness == counter = <<>> /\ cfPc = "raised" /\ entry = "get_colour"

C3_Scenario ==
    /\ entry = "get_dark_light_colours"
    /\ cfPc = "returned"
    /\ getrgb(dark) = <<10, 10, 10>>
    /\ getrgb(light) = <<250, 250, 250>>
    /\ returned[1] = <<dark, light>>

\* C4: whenever the distance correction fires, the returned dark and light
\* differ (as colours, hence as strings).
C4_CorrectedPairDiffers ==
    (/\ entry = "get_dark_light_colours"
     /\ cfPc = "returned"
     /\ 10 * SquaredDistance(getrgb(dark), getrgb(light)) < 3 * 195075) =>
        /\ getrgb(returned[1][1]) # getrgb(returned[1][2])
        /\ returned[1][1] # returned[1][2]

\* The correction fires on an image whose extracted dark and light coincide.
C4_Witness ==
    /\ entry = "get_dark_light_colours"
    /\ cfPc = "returned"
    /\ dark = light
    /\ returned[1][1] = Black

RECURSIVE TotalWeight(_, _)
TotalWeight(S, cb) ==
    IF S = {} THEN 0
    ELSE LET e == CHOOSE x \in S : TRUE
         IN  Max2(IntOf(CallCallback(cb, e.pixel)), 0) * e.count
                + TotalWeight(S \ {e}, cb)

\* The histogram entries pass k must consider, given the winner logged by pass k-1.
Considered(k) ==
    IF k = 1 THEN Entries
    ELSE { e \in Entries :
             DegradePixel(e.pixel, passes[k - 1].degrade)
                = <<passes[k - 1].rgb.r, passes[k - 1].rgb.g, passes[k - 1].rgb.b>> }

\* The buckets pass k must build from them: key and accumulated weight * count.
ExpectedBuckets(k) ==
    { [key |-> key,
       total |-> TotalWeight({ e \in Considered(k) :
                                 DegradePixel(e.pixel, passes[k].degrade) = key },
                             callback)]
      : key \in { DegradePixel(e.pixel, passes[k].degrade) : e \in Considered(k) } }

RedGreen == { [pixel |-> <<255, 0, 0>>, count |-> 100],
              [pixel |-> <<0, 255, 0>>, count |-> 1] }

\* C10: a get_colour that returns made exactly four passes, at levels 6, 4, 2,
\* 0 in that order; pass 1 bucketed every entry and each later pass exactly the
\* entries that, shifted by the previous level, equal the previous winner; each
\* pass accumulated weight * count per degraded key and picked a bucket of
\* maximal total; the level-0 winner is the colour returned.  On
\* {(255,0,0):100, (0,255,0):1} with favour_hue every winner is the bucket of
\* (255,0,0) and the result is (255,0,0).
C10_FourPassRefinement ==
    ColourFound =>
        /\ Len(passes) = 4
        /\ [k \in 1..4 |-> passes[k].degrade] = <<6, 4, 2, 0>>
        /\ \A k \in 1..4 :
              LET db == passes[k].db
                  win == passes[k].rgb
                  expected == ExpectedBuckets(k)
              IN  /\ { db[i] : i \in 1..Len(db) } = expected
                  /\ Len(db) = Cardinality(expected)
                  /\ [key |-> <<win.r, win.g, win.b>>, total |-> win.weight]
                        \in expected
                  /\ \A bucket \in expected : bucket.total <= win.weight
                  /\ win.d = passes[k].degrade
        /\ getrgb(LastColour) = <<passes[4].rgb.r, passes[4].rgb.g, passes[4].rgb.b>>
        /\ (Entries = RedGreen /\ callback = "favour_hue") =>
              /\ \A k \in 1..4 :
                    <<passes[k].rgb.r, passes[k].rgb.g, passes[k].rgb.b>>
                        = DegradePixel(<<255, 0, 0>>, passes[k].degrade)
              /\ getrgb(LastColour) = <<255, 0, 0>>

C10_Witness ==
    /\ entry = "get_colour"
    /\ cfPc = "returned"
    /\ callback = "favour_hue"
    /\ Entries = RedGreen
    /\ returned[1] = <<"#", "f", "f", "0", "0", "0", "0">>

\* The position in the histogram of the first entry that pass k put in bucket
\* `key`: the moment the bucket was created.
FirstCreated(k, key) ==
    LET hits == { n \in 1..Len(counter) :
                    /\ counter[n] \in Considered(k)
                    /\ DegradePixel(counter[n].pixel, passes[k].degrade) = key }
    IN  CHOOSE n \in hits : \A m \in hits : n <= m

\* The states after a get_colour that returned, the repeated call included.
ColourReturned == ColourFound \/ cfPc = "returned_again"

\* C11: in every pass the buckets stand in the order of their creation during
\* the iteration over the histogram, and the winner is the first bucket of
\* maximal accumulated weight in that order; a second get_colour on the same
\* histogram with the same callback returns the same colour.
C11_FirstMaximumWins ==
    /\ ColourReturned =>
          \A k \in 1..Len(passes) :
              LET db == passes[k].db
                  win == passes[k].rgb
                  top == { i \in 1..Len(db) : \A j \in 1..Len(db) : db[j].total <= db[i].total }
                  first == CHOOSE i \in top : \A j \in top : i <= j
              IN  /\ \A i, j \in 1..Len(db) :
                        i < j => FirstCreated(k, db[i].key) < FirstCreated(k, db[j].key)
                  /\ <<win.r, win.g, win.b>> = db[first].key
                  /\ win.weight = db[first].total
    /\ cfPc = "returned_again" =>
          /\ Len(returned) = 2
          /\ returned[2] = returned[1]

\* Red and green tie under favour_hue in every pass; red, created first, wins
\* both calls.
C11_Witness ==
    /\ cfPc = "returned_again"
    /\ callback = "favour_hue"
    /\ counter = <<[pixel |-> <<255, 0, 0>>, count |-> 1],
                   [pixel |-> <<0, 255, 0>>, count |-> 1]>>
    /\ Len(passes[1].db) = 2
    /\ passes[1].db[1].total = passes[1].db[2].total
    /\ returned = <<<<"#", "f", "f", "0", "0", "0", "0">>,
                    <<"#", "f", "f", "0", "0", "0", "0">>>>

\* C13: once the level-6 pass has succeeded on a non-empty histogram, no later
\* pass fails: each has an entry matching the previous winner and so a
\* non-empty bucket map, and its winner shifted right by 2 is the previous
\* winner.
C13_WinnersFormPrefixChain ==
    (counter # <<>> /\ passes # <<>> /\ ~passes[1].raised) =>
        /\ cfPc # "raised"
        /\ \A k \in 2..Len(passes) :
              LET prev == passes[k - 1].rgb
                  win == passes[k].rgb
              IN  /\ \E e \in Entries :
                        DegradePixel(e.pixel, passes[k - 1].degrade)
                            = <<prev.r, prev.g, prev.b>>
                  /\ passes[k].db # <<>>
                  /\ ~passes[k].raised
                  /\ DegradePixel(<<win.r, win.g, win.b>>, 2) = <<prev.r, prev.g, prev.b>>

\* Three colours share the level-6 bucket and part at level 4.
C13_Witness ==
    /\ entry = "get_colour"
    /\ cfPc = "returned"
    /\ Len(passes) = 4
    /\ Len(passes[1].db) = 1
    /\ Len(passes[2].db) = 2
    /\ passes[2].rgb.r = 3
    /\ returned[1] = <<"#", "3", "c", "0", "a", "0", "a">>

(***************************************************************************)
(* Properties of the weight callbacks (specification SpecWeight).          *)
(***************************************************************************)
FavourDarkWeighed == weighed = "favour_dark" /\ weightA # <<>>

Brightness(pixel) == pixel[1] + pixel[2] + pixel[3]

\* C5 as stated: favour_dark is strictly decreasing in r + g + b, scores black
\* 769 and scores white 1.
C5_WhiteScoresOne ==
    FavourDarkWeighed =>
        /\ Brightness(pixelA) < Brightness(pixelB) => IntOf(weightA) > IntOf(weightB)
        /\ pixelA = <<0, 0, 0>> => weightA = <<769, 1>>
        /\ pixelA = <<255, 255, 255>> => weightA = <<1, 1>>

\* C5 amended: favour_dark is strictly decreasing in r + g + b, scores black
\* 769 and scores white 4.
C5_FavourDarkDecreasing ==
    FavourDarkWeighed =>
        /\ Brightness(pixelA) < Brightness(pixelB) => IntOf(weightA) > IntOf(weightB)
        /\ pixelA = <<0, 0, 0>> => weightA = <<769, 1>>
        /\ pixelA = <<255, 255, 255>> => weightA = <<4, 1>>

C5_Witness ==
    /\ FavourDarkWeighed
    /\ pixelA = <<255, 255, 255>>
    /\ pixelB = <<0, 0, 0>>
    /\ weightA = <<4, 1>>
    /\ weightB = <<769, 1>>

(***************************************************************************)
(* Properties of QRCode (specification SpecQR).                            *)
(***************************************************************************)
QrScale == ScaleOf(qrVersion, qrWidth)

\* The pixels of the dark modules of finder pattern k (1 top-left, 2 top-right,
\* 3 bottom-left) in the rendered image.
DarkPixels(k) ==
    LET origin == FinderOrigins(qrVersion)[k]
    IN  { p \in Points(SymbolSize(qrVersion, QrScale), SymbolSize(qrVersion, QrScale)) :
            LET col == (p[1] \div QrScale) - Border
                row == (p[2] \div QrScale) - Border
            IN  /\ col >= origin[1] /\ col < origin[1] + FinderSize
                /\ row >= origin[2] /\ row < origin[2] + FinderSize
                /\ ModuleType(qrVersion, col, row) = "TYPE_FINDER_PATTERN_DARK" }

\* <<(min x, min y), (max x, max y)>> over a non-empty set of points
BoundingBox(S) ==
    LET xs == { p[1] : p \in S }
        ys == { p[2] : p \in S }
        Least(V) == CHOOSE v \in V : \A u \in V : v <= u
        Greatest(V) == CHOOSE v \in V : \A u \in V : v >= u
    IN  <<<<Least(xs), Least(ys)>>, <<Greatest(xs), Greatest(ys)>>>>

ListSet(list) == { list[i] : i \in 1..Len(list) }

\* C6: each of the three lists, sorted by x + y ascending, starts at (min x,
\* min y) and ends at (max x, max y) of its points, and the pair returned for a
\* marker is the pixel bounding box of that finder pattern's dark modules.
C6_SortedExtremesAreBoundingBox ==
    qrMarkers # <<>> =>
        \A k \in 1..3 :
            LET list == qrLists[k]
            IN  /\ list # <<>>
                /\ \A i \in 1..(Len(list) - 1) :
                      list[i][1] + list[i][2] <= list[i + 1][1] + list[i + 1][2]
                /\ <<list[1], list[Len(list)]>> = BoundingBox(ListSet(list))
                /\ qrMarkers[k] = <<list[1], list[Len(list)]>>
                /\ qrMarkers[k] = BoundingBox(DarkPixels(k))

C6_Witness ==
    /\ qrPc = "located"
    /\ QrScale = 2
    /\ qrVersion = 2
    /\ qrMarkers[2] = <<<<22 * 2, 4 * 2>>, <<29 * 2 - 1, 11 * 2 - 1>>>>

Overlap(m1, m2) ==
    /\ m1[1][1] <= m2[2][1] /\ m2[1][1] <= m1[2][1]
    /\ m1[1][2] <= m2[2][2] /\ m2[1][2] <= m1[2][2]

\* C7: on the 21 x 21 matrix, at every scale, locating the markers does not
\* fail and gives three regions, each from a non-empty list, with both corners
\* inside the image and the inclusive rectangles pairwise disjoint.
C7_ThreeDisjointRegionsInBounds ==
    qrVersion = 1 =>
        /\ qrError # "IndexError"
        /\ qrMarkers # <<>> =>
              /\ Len(qrMarkers) = 3
              /\ \A k \in 1..3 :
                    /\ qrLists[k] # <<>>
                    /\ \A c \in 1..2 :
                          /\ qrMarkers[k][c][1] \in 0..(qrImage[1].width - 1)
                          /\ qrMarkers[k][c][2] \in 0..(qrImage[1].height - 1)
              /\ \A k, n \in 1..3 : k # n => ~Overlap(qrMarkers[k], qrMarkers[n])

C7_Witness ==
    /\ qrVersion = 1
    /\ qrPc = "located"
    /\ QrScale = 1
    /\ qrMarkers = <<<<<<4, 4>>, <<10, 10>>>>, <<<<18, 4>>, <<24, 10>>>>,
                     <<<<4, 18>>, <<10, 24>>>>>>

\* C8: after _remove_finding_markers every pixel of each located rectangle,
\* both corners included, has the light colour the code was rendered with, and
\* the positions returned are those of the three rectangles.
C8_StripPaintsLightColour ==
    qrPc = "stripped" =>
        /\ \A k \in 1..3 : qrMarkers[k] = BoundingBox(DarkPixels(k))
        /\ \A p \in DOMAIN qrImage[1].px :
              (\E k \in 1..3 : InRectangle(p, qrMarkers[k][1], qrMarkers[k][2]))
                 => qrImage[1].px[p] = qrLight

\* What the code does instead: the rectangles are white whatever the light
\* colour, and every other pixel is as rendered.
StripPaintsWhite ==
    qrPc = "stripped" =>
        /\ \A k \in 1..3 : qrMarkers[k] = BoundingBox(DarkPixels(k))
        /\ \A p \in DOMAIN qrImage[1].px :
              IF \E k \in 1..3 : InRectangle(p, qrMarkers[k][1], qrMarkers[k][2])
              THEN qrImage[1].px[p] = "white"
              ELSE qrImage[1].px[p]
                      = RenderImage(qrVersion, QrScale, qrDark, qrLight).px[p]

\* Every pixel of the scaled matrix whose module is finder-pattern dark.
FinderDarkPoints ==
    { p \in Points(SymbolSize(qrVersion, QrScale), SymbolSize(qrVersion, QrScale)) :
        MatrixIter(qrVersion, QrScale, p[1], p[2]) = "TYPE_FINDER_PATTERN_DARK" }

\* C12: after a scan every finder-pattern-dark point is in exactly one of the
\* three lists, the one the rule gives it (x > mid_x: top-right; x < mid_x and
\* y < mid_y: top-left; x < mid_x and y > mid_y: bottom-left); none lies on
\* x = mid_x or, left of it, on y = mid_y, so none is dropped; and the points
\* right of mid_x are exactly the dark points of the top-right finder pattern.
C12_EveryDarkPointClassifiedOnce ==
    qrLists # <<>> =>
        LET mid_x == qrImage[1].width \div 2
            mid_y == qrImage[1].height \div 2
            dark_points == FinderDarkPoints
            InList(k, p) == \E i \in 1..Len(qrLists[k]) : qrLists[k][i] = p
        IN  /\ \A p \in dark_points :
                  /\ p[1] # mid_x
                  /\ ~(p[1] < mid_x /\ p[2] = mid_y)
                  /\ InList(2, p) <=> p[1] > mid_x
                  /\ InList(1, p) <=> (p[1] < mid_x /\ p[2] < mid_y)
                  /\ InList(3, p) <=> (p[1] < mid_x /\ p[2] > mid_y)
                  /\ Cardinality({ k \in 1..3 : InList(k, p) }) = 1
                  /\ p[1] > mid_x => p \in DarkPixels(2)
            /\ \A k \in 1..3 :
                  /\ ListSet(qrLists[k]) \subseteq dark_points
                  /\ Cardinality(ListSet(qrLists[k])) = Len(qrLists[k])

\* At scale 2 of version 2 (66 pixels a side, both midpoints 33) the scan
\* filed the corner of each finder pattern nearest the centre.
C12_Witness ==
    /\ qrPc = "located"
    /\ qrVersion = 2
    /\ QrScale = 2
    /\ \E i \in 1..Len(qrLists[1]) : qrLists[1][i] = <<21, 21>>
    /\ \E i \in 1..Len(qrLists[2]) : qrLists[2][i] = <<44, 21>>
    /\ \E i \in 1..Len(qrLists[3]) : qrLists[3][i] = <<21, 44>>

(***************************************************************************)
(* Properties of generate_qr_codes (specification SpecBatch).              *)
(***************************************************************************)
BatchOver ==
    /\ bPc \in {"printed", "raised"}
    /\ \A i \in DOMAIN bStatus : bStatus[i] # "pending"

\* C9: when the only failures in a batch are failures of the marker overlay,
\* each is fatal for its own image only: generate_qr_codes does not raise, every
\* other image is generated, and its save path is collected.
C9_OverlayFailureSparesTheBatch ==
    (/\ BatchOver
     /\ \E i \in DOMAIN bStatus : bStatus[i] \in CompositorFailures
     /\ \A i \in DOMAIN bStatus : bStatus[i] # "image_missing") =>
        /\ bPc = "printed"
        /\ \A i \in DOMAIN bStatus :
              bStatus[i] \notin CompositorFailures =>
                 /\ bStatus[i] = "saved"
                 /\ \E n \in 1..Len(bSavePaths) : bSavePaths[n] = i

====
